---- MODULE Spec2Model ----
(***************************************************************************)
(* Model of travailleur's definition loading pipeline:                     *)
(*   DefinitionCache::get_or_insert  (src/cache.rs)                        *)
(*   DefinitionLoader::load          (src/loader.rs)                       *)
(*   ValidateDefinition              (src/validation.rs)                   *)
(*   Error                           (src/error.rs)                        *)
(*                                                                         *)
(* Strings whose characters the code inspects (the last path segment of a  *)
(* URI, a file extension) are sequences of one-character strings.          *)
(***************************************************************************)
EXTENDS Integers, Sequences, FiniteSets, TLC

VARIABLES
    yaml,       \* cargo feature "yaml" of the build
    validate,   \* cargo feature "validate" of the build
    cache,      \* DefinitionCache.cache : HashMap<Url, (Rc<dyn Any>, &'static str)>
    nextRc,     \* number of Rc allocations handed out so far (Rc identity)
    loads,      \* per URI loaded so far: how many times the cache invoked DefinitionLoader::load
    ncalls,     \* number of calls (get_or_insert, load) made so far
    panicked,   \* TRUE once a call has hit unimplemented!()
    last,       \* observation of the most recent call (arguments, result, effects)
    arg         \* the arguments that the direct calls of the loader are made with

vars == <<yaml, validate, cache, nextRc, loads, ncalls, panicked, last, arg>>

(***************************************************************************)
(* Bounds                                                                  *)
(***************************************************************************)
MaxCalls == 3

\* the width of the integer type that stands for i64
IntBits == 8

\* the longest sequence given to unique_values
MaxValues == 4

\* the most states of a workflow definition
MaxStates == 1

(***************************************************************************)
(* Characters and strings                                                  *)
(***************************************************************************)
UpperChars == <<"A","B","C","D","E","F","G","H","I","J","K","L","M",
                "N","O","P","Q","R","S","T","U","V","W","X","Y","Z">>

LowerChars == <<"a","b","c","d","e","f","g","h","i","j","k","l","m",
                "n","o","p","q","r","s","t","u","v","w","x","y","z">>

\* u8::to_ascii_lowercase
CharToAsciiLowercase(c) ==
    IF \E i \in 1..Len(UpperChars) : UpperChars[i] = c
    THEN LowerChars[CHOOSE i \in 1..Len(UpperChars) : UpperChars[i] = c]
    ELSE c

ToAsciiLowercaseIdentity(s) == s

\* OsStr::to_ascii_lowercase
ToAsciiLowercase(s) == [i \in 1..Len(s) |-> CharToAsciiLowercase(s[i])]

SetMax(S) == CHOOSE m \in S : \A n \in S : n <= m

None == [some |-> FALSE]

Some(v) == [some |-> TRUE, v |-> v]

\* Path::new(segment).extension(), for one URI path segment (it holds no '/')
PathExtension(seg) ==
    LET dots == {i \in 1..Len(seg) : seg[i] = "."}
    IN  IF seg = <<>> \/ seg = <<".">> \/ seg = <<".", ".">> THEN None
        ELSE IF dots = {} THEN None
        ELSE IF SetMax(dots) = 1 THEN None
        ELSE Some(SubSeq(seg, SetMax(dots) + 1, Len(seg)))

ExtJson == <<"j","s","o","n">>

ExtYaml == <<"y","a","m","l">>

ExtYml == <<"y","m","l">>

(***************************************************************************)
(* Inputs: document types, URIs, resource contents                         *)
(***************************************************************************)
\* type_name::<T>() of the two document types that calls are made with
TypeWorkflow == "travailleur::workflow::definition::WorkflowDefinition"

TypeFunctions == "travailleur::workflow::definition::functions::Functions"

Types == {TypeWorkflow, TypeFunctions}

Segments ==
    { <<"w","f",".","j","s","o","n">>,
      <<"W","F",".","J","S","O","N">>,
      <<"w","f",".","J","s","o","n">>,
      <<"w","f",".","y","a","m","l">>,
      <<"w","f",".","Y","M","L">>,
      <<"w","f",".","x","y","z">>,
      <<"w",".","j","s","o","n",".","x","y","z">>,
      <<"w",".","x","y","z",".","j","s","o","n">>,
      <<"w","f">>,
      <<"w","f",".">>,
      <<".","j","s","o","n">>,
      <<>> }

Schemes == {"file", "http", "https", "ftp", "s3"}

\* "" stands for a URI without host
Hosts == {"", "localhost", "example.com"}

Uris == [scheme : Schemes, host : Hosts, seg : Segments]

Uri(scheme, host, seg) == [scheme |-> scheme, host |-> host, seg |-> seg]

\* the URIs used as keys in the cache specification
CacheUris ==
    { Uri("file", "", <<"w","f",".","j","s","o","n">>),
      Uri("file", "", <<"w","f",".","y","a","m","l">>),
      Uri("file", "", <<"w","f",".","x","y","z">>),
      Uri("http", "example.com", <<"w","f",".","j","s","o","n">>),
      Uri("ftp", "example.com", <<"w","f",".","j","s","o","n">>) }

\* What a resource holds at the time it is read: whether it can be read at
\* all, the syntax of its bytes, the document types the bytes deserialize
\* into, how many validation rules the document violates, and which document
\* it is.
Content(exists, syntax, shapes, violations, id) ==
    [exists |-> exists, syntax |-> syntax, shapes |-> shapes,
     violations |-> violations, id |-> id]

Absent == Content(FALSE, "none", {}, 0, 0)

Contents ==
    { Absent,
      Content(TRUE, "garbage", {}, 0, 0),
      Content(TRUE, "json", {TypeWorkflow}, 0, 1),
      Content(TRUE, "json", {TypeWorkflow, TypeFunctions}, 0, 2),
      Content(TRUE, "json", {TypeWorkflow}, 3, 3),
      Content(TRUE, "yaml", {TypeWorkflow, TypeFunctions}, 0, 4) }

(***************************************************************************)
(* Error (src/error.rs)                                                    *)
(***************************************************************************)
ErrUnsupportedUriScheme(scheme) == [tag |-> "UnsupportedUriScheme", scheme |-> scheme]

ErrUnsupportedFileFormat(ext) == [tag |-> "UnsupportedFileFormat", file_ext |-> ext]

ErrInvalidPathInFileUri(uri) == [tag |-> "InvalidPathInFileUri", file_uri |-> uri]

ErrFileIo == [tag |-> "FileIo"]

ErrJsonConversionFailed == [tag |-> "JsonConversionFailed"]

ErrYamlConversionFailed == [tag |-> "YamlConversionFailed"]

ErrValidationFailed(report) == [tag |-> "ValidationFailed", report |-> report]

ErrFeatureDisabled(feature) == [tag |-> "FeatureDisabled", required_feature |-> feature]

ErrInvalidCachedObjectType(expected, actual) ==
    [tag |-> "InvalidCachedObjectType", expected_type |-> expected, actual_type |-> actual]

\* Results of the steps of a load: Ok(value), Err(error), or a panic
Ok(v) == [kind |-> "ok", v |-> v]

Err(e) == [kind |-> "err", err |-> e]

NoError == [tag |-> "none"]

(***************************************************************************)
(* DefinitionLoader (src/loader.rs)                                        *)
(*                                                                         *)
(* Every step yields an outcome: how it ended (ok, err, panic), the error, *)
(* the document decoded, and what the step did (a filesystem read, the     *)
(* decoder that ran, whether the validation rules ran).                    *)
(***************************************************************************)
Outcome(kind, err, doc, reads, decoder, validated) ==
    [kind |-> kind, err |-> err, doc |-> doc, reads |-> reads,
     decoder |-> decoder, validated |-> validated]

\* Url::to_file_path on a non-Windows target: only a URI without host, or
\* with host "localhost", names a local path
ToFilePathOk(uri) == uri.host \in {"", "localhost"}

\* DefinitionLoader::load_from_file
LoadFromFile(uri, content) ==
    IF ~ToFilePathOk(uri)
    THEN Outcome("err", ErrInvalidPathInFileUri(uri), 0, 0, "none", FALSE)
    ELSE IF ~content.exists
    THEN Outcome("err", ErrFileIo, 0, 1, "none", FALSE)
    ELSE Outcome("ok", NoError, 0, 1, "none", FALSE)

LoadFromHttpEmpty(uri) == Outcome("ok", NoError, 0, 0, "none", FALSE)

\* DefinitionLoader::load_from_http
LoadFromHttp(uri) == Outcome("panic", NoError, 0, 0, "none", FALSE)

FetchBytesAnyFile(uri, content) ==
    CASE uri.scheme \in {"http", "https"} -> LoadFromHttp(uri)
      [] OTHER -> LoadFromFile(uri, content)

\* the scheme dispatch of DefinitionLoader::load
FetchBytes(uri, content) ==
    CASE uri.scheme = "file" -> LoadFromFile(uri, content)
      [] uri.scheme \in {"http", "https"} -> LoadFromHttp(uri)
      [] OTHER -> Outcome("err", ErrUnsupportedUriScheme(uri.scheme), 0, 0, "none", FALSE)

\* the file_ext computed by DefinitionLoader::load
FileExt(uri) ==
    LET ext == PathExtension(uri.seg)
    IN  IF ext.some THEN ToAsciiLowercase(ext.v) ELSE <<>>

\* DefinitionLoader::load_from_json (serde_json::from_slice)
LoadFromJson(T, content, fetched) ==
    IF content.syntax = "json" /\ T \in content.shapes
    THEN Outcome("ok", NoError, content.id, fetched.reads, "json", FALSE)
    ELSE Outcome("err", ErrJsonConversionFailed, 0, fetched.reads, "json", FALSE)

LoadFromYamlFallback(T, content, fetched, yamlFeature) ==
    IF ~yamlFeature
    THEN LoadFromJson(T, content, fetched)
    ELSE IF content.syntax \in {"json", "yaml"} /\ T \in content.shapes
    THEN Outcome("ok", NoError, content.id, fetched.reads, "yaml", FALSE)
    ELSE Outcome("err", ErrYamlConversionFailed, 0, fetched.reads, "yaml", FALSE)

\* DefinitionLoader::load_from_yaml (serde_yaml::from_slice reads JSON
\* documents too: JSON syntax is YAML flow syntax)
LoadFromYaml(T, content, fetched, yamlFeature) ==
    IF ~yamlFeature
    THEN Outcome("err", ErrFeatureDisabled("yaml"), 0, fetched.reads, "none", FALSE)
    ELSE IF content.syntax \in {"json", "yaml"} /\ T \in content.shapes
    THEN Outcome("ok", NoError, content.id, fetched.reads, "yaml", FALSE)
    ELSE Outcome("err", ErrYamlConversionFailed, 0, fetched.reads, "yaml", FALSE)

DecodeJsonOnly(ext, T, content, fetched, yamlFeature) ==
    CASE ext = ExtJson -> LoadFromJson(T, content, fetched)
      [] OTHER -> Outcome("err", ErrUnsupportedFileFormat(ext), 0, fetched.reads, "none", FALSE)

\* the match on file_ext of DefinitionLoader::load
Decode(ext, T, content, fetched, yamlFeature) ==
    CASE ext = ExtJson -> LoadFromJson(T, content, fetched)
      [] ext \in {ExtYaml, ExtYml} -> LoadFromYaml(T, content, fetched, yamlFeature)
      [] OTHER -> Outcome("err", ErrUnsupportedFileFormat(ext), 0, fetched.reads, "none", FALSE)

ValidateDefinitionLenient(content, validateFeature) ==
    IF ~validateFeature THEN Err(ErrFeatureDisabled("validate")) ELSE Ok(TRUE)

\* ValidateDefinition::validate_definition (src/validation.rs)
ValidateDefinition(content, validateFeature) ==
    IF ~validateFeature THEN Err(ErrFeatureDisabled("validate"))
    ELSE IF content.violations > 0 THEN Err(ErrValidationFailed(content.violations))
    ELSE Ok(TRUE)

ValidateStepAlways(content, decoded, validateFeature) ==
    LET v == ValidateDefinition(content, validateFeature)
    IN  IF v.kind = "err"
        THEN Outcome("err", v.err, 0, decoded.reads, decoded.decoder, validateFeature)
        ELSE Outcome("ok", NoError, decoded.doc, decoded.reads, decoded.decoder, TRUE)

\* the validation step of DefinitionLoader::load: the call of
\* validate_definition is compiled only with feature "validate"
ValidateStep(content, decoded, validateFeature) ==
    IF validateFeature
    THEN LET v == ValidateDefinition(content, validateFeature)
         IN  IF v.kind = "err"
             THEN Outcome("err", v.err, 0, decoded.reads, decoded.decoder, TRUE)
             ELSE Outcome("ok", NoError, decoded.doc, decoded.reads, decoded.decoder, TRUE)
    ELSE decoded

LoadRemembering(uri, T, content, yamlFeature, validateFeature) ==
    LET fetched == FetchBytes(uri, content)
        remembered == [fetched EXCEPT !.reads = IF nextRc > 0 THEN 0 ELSE @]
    IN  IF remembered.kind # "ok" THEN remembered
        ELSE LET decoded == Decode(FileExt(uri), T, content, remembered, yamlFeature)
             IN  IF decoded.kind # "ok" THEN decoded
                 ELSE ValidateStep(content, decoded, validateFeature)

LoadFormatFirst(uri, T, content, yamlFeature, validateFeature) ==
    LET unread == Outcome("ok", NoError, 0, 0, "none", FALSE)
        format == Decode(FileExt(uri), T, content, unread, yamlFeature)
        fetched == FetchBytes(uri, content)
    IN  IF format.kind # "ok" /\ format.decoder = "none" THEN format
        ELSE IF fetched.kind # "ok" THEN fetched
        ELSE LET decoded == Decode(FileExt(uri), T, content, fetched, yamlFeature)
             IN  IF decoded.kind # "ok" THEN decoded
                 ELSE ValidateStep(content, decoded, validateFeature)

\* DefinitionLoader::load::<T>(uri), the resource holding content when read
Load(uri, T, content, yamlFeature, validateFeature) ==
    LET fetched == FetchBytes(uri, content)
    IN  IF fetched.kind # "ok" THEN fetched
        ELSE LET decoded == Decode(FileExt(uri), T, content, fetched, yamlFeature)
             IN  IF decoded.kind # "ok" THEN decoded
                 ELSE ValidateStep(content, decoded, validateFeature)

\* Rc::new in DefinitionLoader::load wraps the decoded document before the
\* validation step: it ran if the load succeeded or got to validate
Allocated(outcome) == outcome.kind = "ok" \/ outcome.validated

(***************************************************************************)
(* DefinitionCache (src/cache.rs)                                          *)
(***************************************************************************)
\* the pair stored for a URI: the Rc<dyn Any> (its allocation, the document
\* it holds, the TypeId of the document) and the type name
Entry(rc, doc, T) == [def |-> [rc |-> rc, doc |-> doc, tid |-> T], actual_type |-> T]

CacheGetNever(c, uri) == None

\* HashMap::get
CacheGet(c, uri) == IF uri \in DOMAIN c THEN Some(c[uri]) ELSE None

CacheInsertOnly(c, uri, entry) == [u \in {uri} |-> entry]

CacheInsertNoop(c, uri, entry) == c

\* HashMap::insert
CacheInsert(c, uri, entry) ==
    [u \in DOMAIN c \cup {uri} |-> IF u = uri THEN entry ELSE c[u]]

DowncastUnchecked(entry, T) == Ok(entry.def)

\* Rc::clone(def).downcast::<T>(), mapped to InvalidCachedObjectType
Downcast(entry, T) ==
    IF entry.def.tid = T
    THEN Ok(entry.def)
    ELSE Err(ErrInvalidCachedObjectType(T, entry.actual_type))

\* what a call is observed to have done
Observation(op, uri, T, content, hit, kind, err, rc, doc, reads, decoder, validated, loaderRuns) ==
    [op |-> op, uri |-> uri, type |-> T, content |-> content, hit |-> hit,
     kind |-> kind, err |-> err, rc |-> rc, doc |-> doc, reads |-> reads,
     decoder |-> decoder, validated |-> validated, loaderRuns |-> loaderRuns]

NoCall ==
    Observation("none", Uri("file", "", <<>>), TypeWorkflow, Absent, FALSE,
                "none", NoError, 0, 0, 0, "none", FALSE, 0)

\* the number of loader invocations the cache made for uri
LoadCount(l, uri) == IF uri \in DOMAIN l THEN l[uri] ELSE 0

CountLoad(l, uri) ==
    [u \in DOMAIN l \cup {uri} |-> IF u = uri THEN LoadCount(l, uri) + 1 ELSE l[u]]

GetOrInsertHitEvicts(uri, T, content, entry) ==
    LET d == Downcast(entry, T)
    IN  /\ last' = IF d.kind = "ok"
                   THEN Observation("get_or_insert", uri, T, content, TRUE, "ok",
                                    NoError, d.v.rc, d.v.doc, 0, "none", FALSE, 0)
                   ELSE Observation("get_or_insert", uri, T, content, TRUE, "err",
                                    d.err, 0, 0, 0, "none", FALSE, 0)
        /\ cache' = IF d.kind = "ok" THEN cache
                    ELSE [u \in DOMAIN cache \ {uri} |-> cache[u]]
        /\ UNCHANGED <<nextRc, loads, panicked>>

\* the hit branch of get_or_insert
GetOrInsertHit(uri, T, content, entry) ==
    LET d == Downcast(entry, T)
    IN  /\ last' = IF d.kind = "ok"
                   THEN Observation("get_or_insert", uri, T, content, TRUE, "ok",
                                    NoError, d.v.rc, d.v.doc, 0, "none", FALSE, 0)
                   ELSE Observation("get_or_insert", uri, T, content, TRUE, "err",
                                    d.err, 0, 0, 0, "none", FALSE, 0)
        /\ UNCHANGED <<cache, nextRc, loads, panicked>>

GetOrInsertMissNegative(uri, T, content) ==
    LET r == Load(uri, T, content, yaml, validate)
        rc == nextRc + 1
    IN  /\ loads' = CountLoad(loads, uri)
        /\ nextRc' = IF Allocated(r) THEN rc ELSE nextRc
        /\ panicked' = (r.kind = "panic")
        /\ cache' = IF r.kind # "panic"
                    THEN CacheInsert(cache, uri, Entry(rc, r.doc, T))
                    ELSE cache
        /\ last' = Observation("get_or_insert", uri, T, content, FALSE, r.kind, r.err,
                               IF r.kind = "ok" THEN rc ELSE 0, r.doc, r.reads,
                               r.decoder, r.validated, 1)

\* the miss branch of get_or_insert
GetOrInsertMiss(uri, T, content) ==
    LET r == Load(uri, T, content, yaml, validate)
        rc == nextRc + 1
    IN  /\ loads' = CountLoad(loads, uri)
        /\ nextRc' = IF Allocated(r) THEN rc ELSE nextRc
        /\ panicked' = (r.kind = "panic")
        /\ cache' = IF r.kind = "ok"
                    THEN CacheInsert(cache, uri, Entry(rc, r.doc, T))
                    ELSE cache
        /\ last' = Observation("get_or_insert", uri, T, content, FALSE, r.kind, r.err,
                               IF r.kind = "ok" THEN rc ELSE 0, r.doc, r.reads,
                               r.decoder, r.validated, 1)

\* DefinitionCache::get_or_insert::<T>(uri), the resource at uri holding
\* content at the time of the call
GetOrInsert(uri, T, content) ==
    /\ ~panicked
    /\ ncalls < MaxCalls
    /\ ncalls' = ncalls + 1
    /\ LET found == CacheGet(cache, uri)
       IN  IF found.some
           THEN GetOrInsertHit(uri, T, content, found.v)
           ELSE GetOrInsertMiss(uri, T, content)
    /\ UNCHANGED <<yaml, validate, arg>>

\* a direct call of DefinitionLoader::load::<T>(uri)
LoaderLoad(uri, T, content) ==
    LET r == Load(uri, T, content, yaml, validate)
        rc == nextRc + 1
    IN  /\ ~panicked
        /\ ncalls < MaxCalls
        /\ ncalls' = ncalls + 1
        /\ nextRc' = IF Allocated(r) THEN rc ELSE nextRc
        /\ panicked' = (r.kind = "panic")
        /\ last' = Observation("load", uri, T, content, FALSE, r.kind, r.err,
                               IF r.kind = "ok" THEN rc ELSE 0, r.doc, r.reads,
                               r.decoder, r.validated, 1)
        /\ UNCHANGED <<yaml, validate, cache, loads, arg>>

\* a direct call of validate_definition on the document that content holds
ValidateCall(T, content) ==
    LET v == ValidateDefinition(content, validate)
    IN  /\ ~panicked
        /\ ncalls < MaxCalls
        /\ T \in content.shapes
        /\ ncalls' = ncalls + 1
        /\ last' = Observation("validate_definition", arg.uri, T, content, FALSE, v.kind,
                               IF v.kind = "err" THEN v.err ELSE NoError,
                               0, content.id, 0, "none", validate, 0)
        /\ UNCHANGED <<yaml, validate, cache, nextRc, loads, panicked, arg>>

(***************************************************************************)
(* Specifications                                                          *)
(***************************************************************************)
Arg(uri, T, content) == [uri |-> uri, type |-> T, content |-> content]

NoArg == Arg(Uri("file", "", <<>>), TypeWorkflow, Absent)

\* DefinitionCache::new() in a build with any combination of the features
Init ==
    /\ yaml \in BOOLEAN
    /\ validate \in BOOLEAN
    /\ cache = [u \in {} |-> 0]
    /\ nextRc = 0
    /\ loads = [u \in {} |-> 0]
    /\ ncalls = 0
    /\ panicked = FALSE
    /\ last = NoCall
    /\ arg = NoArg

\* one cache, called any number of times
Next == \E uri \in CacheUris, T \in Types, content \in Contents : GetOrInsert(uri, T, content)

Spec == Init /\ [][Next]_vars

\* DefinitionLoader::new() in a build with any combination of the features,
\* and the arguments of the calls: any URI, type and resource content
InitLoader ==
    /\ yaml \in BOOLEAN
    /\ validate \in BOOLEAN
    /\ cache = [u \in {} |-> 0]
    /\ nextRc = 0
    /\ loads = [u \in {} |-> 0]
    /\ ncalls = 0
    /\ panicked = FALSE
    /\ last = NoCall
    /\ arg \in [uri : Uris, type : Types, content : Contents]

\* the loader called directly, the loader called through a cache, and the
\* validation called directly, all with the same arguments
NextLoader ==
    \/ LoaderLoad(arg.uri, arg.type, arg.content)
    \/ GetOrInsert(arg.uri, arg.type, arg.content)
    \/ ValidateCall(arg.type, arg.content)

SpecLoader == InitLoader /\ [][NextLoader]_vars

(***************************************************************************)
(* Properties of DefinitionCache::get_or_insert, under Spec                *)
(***************************************************************************)
\* this step is a call of op
CallStep(op) == ncalls' = ncalls + 1 /\ last'.op = op

\* C1: when get_or_insert::<T>(uri) succeeds and the next call on the cache
\* is get_or_insert::<T>(uri) again, the second call succeeds with a handle
\* to the same allocation and the same document, without invoking the loader
\* (no read, no decode, no validation), whatever the resource holds by then;
\* over the two calls the loader ran once if the first call was a miss.
C1_SecondCallReusesFirstLoad ==
    [][ ( /\ last.op = "get_or_insert"
          /\ last.kind = "ok"
          /\ CallStep("get_or_insert")
          /\ last'.uri = last.uri
          /\ last'.type = last.type )
        => ( /\ last'.kind = "ok"
             /\ last'.rc = last.rc
             /\ last'.doc = last.doc
             /\ last'.loaderRuns = 0
             /\ last'.reads = 0
             /\ last'.decoder = "none"
             /\ ~last'.validated
             /\ loads' = loads
             /\ (~last.hit => last.loaderRuns + last'.loaderRuns = 1) ) ]_vars

\* a second call has returned the document of the first although the
\* resource holds another document by now
C1_Witness ==
    /\ last.op = "get_or_insert"
    /\ last.hit
    /\ last.kind = "ok"
    /\ ncalls = 2
    /\ LoadCount(loads, last.uri) = 1
    /\ last.content.id # last.doc

\* C2: a successful get_or_insert::<A>(uri) leaves an entry whose type is A,
\* and a call get_or_insert::<B>(uri) that finds an entry of a type A # B
\* returns InvalidCachedObjectType with expected_type B and actual_type A,
\* never a value, and does not invoke the loader.
C2_TypeMismatchIsAnError ==
    [][ /\ ( CallStep("get_or_insert") /\ last'.kind = "ok" )
           => ( /\ last'.uri \in DOMAIN cache'
                /\ cache'[last'.uri].def.tid = last'.type )
        /\ ( /\ CallStep("get_or_insert")
             /\ last'.uri \in DOMAIN cache
             /\ cache[last'.uri].def.tid # last'.type )
           => ( /\ last'.kind = "err"
                /\ last'.err = ErrInvalidCachedObjectType(last'.type, cache[last'.uri].def.tid)
                /\ last'.rc = 0
                /\ last'.loaderRuns = 0
                /\ last'.reads = 0
                /\ loads' = loads ) ]_vars

\* a call has asked for a type other than the one stored and got the error
C2_Witness ==
    /\ last.op = "get_or_insert"
    /\ last.uri \in DOMAIN cache
    /\ cache[last.uri].actual_type # last.type
    /\ last.err = ErrInvalidCachedObjectType(last.type, cache[last.uri].actual_type)

\* the lower-cased extension of each last path segment, written out by hand
ExpectedExt(seg) ==
    CASE seg = <<"w","f",".","j","s","o","n">> -> <<"j","s","o","n">>
      [] seg = <<"W","F",".","J","S","O","N">> -> <<"j","s","o","n">>
      [] seg = <<"w","f",".","J","s","o","n">> -> <<"j","s","o","n">>
      [] seg = <<"w","f",".","y","a","m","l">> -> <<"y","a","m","l">>
      [] seg = <<"w","f",".","Y","M","L">> -> <<"y","m","l">>
      [] seg = <<"w","f",".","x","y","z">> -> <<"x","y","z">>
      [] seg = <<"w",".","j","s","o","n",".","x","y","z">> -> <<"x","y","z">>
      [] seg = <<"w",".","x","y","z",".","j","s","o","n">> -> <<"j","s","o","n">>
      [] seg = <<"w","f">> -> <<>>
      [] seg = <<"w","f",".">> -> <<>>
      [] seg = <<".","j","s","o","n">> -> <<>>
      [] seg = <<>> -> <<>>

\* the resource at a file:// URI can be read
Readable(uri, content) ==
    /\ uri.scheme = "file"
    /\ uri.host \in {"", "localhost"}
    /\ content.exists

\* the resource can be read and decodes as T in this build: a supported
\* format whose decoder accepts the bytes as a T
Decodable(uri, T, content) ==
    /\ Readable(uri, content)
    /\ T \in content.shapes
    /\ \/ ExpectedExt(uri.seg) = ExtJson /\ content.syntax = "json"
       \/ ExpectedExt(uri.seg) \in {ExtYaml, ExtYml} /\ yaml /\ content.syntax \in {"json", "yaml"}

\* the resource can be loaded as T in this build: decodable, and without
\* rule violations where the rules are checked
Loadable(uri, T, content) ==
    /\ Decodable(uri, T, content)
    /\ validate => content.violations = 0

\* C3: a miss whose load fails with an error leaves the cache map as it was,
\* and the next call for the same URI runs the load again and succeeds if
\* the resource is loadable by then.
C3_NoNegativeCaching ==
    [][ /\ ( CallStep("get_or_insert") /\ ~last'.hit /\ last'.kind = "err" )
           => cache' = cache
        /\ ( /\ last.op = "get_or_insert"
             /\ ~last.hit
             /\ last.kind = "err"
             /\ CallStep("get_or_insert")
             /\ last'.uri = last.uri )
           => ( /\ ~last'.hit
                /\ last'.loaderRuns = 1
                /\ Loadable(last'.uri, last'.type, last'.content) => last'.kind = "ok" ) ]_vars

\* a load has succeeded for a URI whose earlier load had failed
C3_Witness ==
    /\ last.op = "get_or_insert"
    /\ ~last.hit
    /\ last.kind = "ok"
    /\ LoadCount(loads, last.uri) = 2

\* C4: no step changes or removes an entry of the cache.
C4_EntriesNeverChange ==
    [][ \A u \in DOMAIN cache : u \in DOMAIN cache' /\ cache'[u] = cache[u] ]_vars

\* an entry of type Functions has outlived three calls, the latest of them
\* a miss on another URI that failed
C4_Witness ==
    /\ Cardinality(DOMAIN cache) = 1
    /\ ncalls = 3
    /\ last.op = "get_or_insert"
    /\ last.kind = "err"
    /\ ~last.hit
    /\ \E u \in DOMAIN cache : cache[u].actual_type = TypeFunctions

\* C5 as stated: the loader is invoked at most once for a URI.
C5_Original_AtMostOneLoaderCall ==
    \A u \in DOMAIN loads : loads[u] <= 1

\* C5 amended: the loader is never invoked for a URI that has an entry, and
\* a load that succeeds gives the URI its entry; so at most one load of a
\* URI succeeds, and only loads that fail are repeated.
C5_AtMostOneSuccessfulLoad ==
    [][ /\ \A u \in DOMAIN cache : LoadCount(loads', u) = LoadCount(loads, u)
        /\ ( CallStep("get_or_insert") /\ last'.loaderRuns = 1 )
           => ( /\ last'.uri \notin DOMAIN cache
                /\ LoadCount(loads', last'.uri) = LoadCount(loads, last'.uri) + 1
                /\ last'.kind = "ok" => last'.uri \in DOMAIN cache' ) ]_vars

\* a URI was loaded with success after a failed load, and then hit
C5_Witness ==
    /\ last.op = "get_or_insert"
    /\ last.hit
    /\ LoadCount(loads, last.uri) = 2

(***************************************************************************)
(* Properties of DefinitionLoader::load, under SpecLoader                  *)
(***************************************************************************)
\* C6: load on a URI whose scheme is none of file, http, https returns
\* UnsupportedUriScheme with that scheme, and reads, decodes and validates
\* nothing.
C6_UnsupportedSchemeRejected ==
    ( last.op = "load" /\ last.uri.scheme \notin {"file", "http", "https"} )
    => ( /\ last.kind = "err"
         /\ last.err = ErrUnsupportedUriScheme(last.uri.scheme)
         /\ last.reads = 0
         /\ last.decoder = "none"
         /\ ~last.validated )

\* an ftp URI of a loadable JSON document was rejected, naming "ftp"
C6_Witness ==
    /\ last.op = "load"
    /\ last.uri.scheme = "ftp"
    /\ last.err = [tag |-> "UnsupportedUriScheme", scheme |-> "ftp"]
    /\ ExpectedExt(last.uri.seg) = ExtJson
    /\ last.content.syntax = "json"

C8_FormatByLowercasedExtension ==
    ( last.op = "load" /\ Readable(last.uri, last.content) )
    => LET e == ExpectedExt(last.uri.seg)
       IN  /\ e = ExtJson => last.decoder = "json"
           /\ (e \in {ExtYaml, ExtYml} /\ yaml) => last.decoder = "yaml"
           /\ (e \in {ExtYaml, ExtYml} /\ ~yaml) => last.decoder = "none"
           /\ e \notin {ExtJson, ExtYaml, ExtYml}
              => ( /\ last.kind = "err"
                   /\ last.err = ErrUnsupportedFileFormat(e)
                   /\ last.decoder = "none" )
           /\ last.err.tag = "UnsupportedFileFormat" => e \notin {ExtJson, ExtYaml, ExtYml}

\* WF.JSON was decoded by the JSON decoder
C8_Witness ==
    /\ last.op = "load"
    /\ last.uri.seg = <<"W","F",".","J","S","O","N">>
    /\ last.decoder = "json"
    /\ last.kind = "ok"

\* C9: without the yaml feature, a load of a readable file:// URI with
\* extension yaml or yml fails with FeatureDisabled("yaml"); no decoder runs,
\* whatever the bytes are.
C9_YamlDisabledIsReported ==
    ( /\ ~yaml
      /\ last.op = "load"
      /\ Readable(last.uri, last.content)
      /\ ExpectedExt(last.uri.seg) \in {ExtYaml, ExtYml} )
    => ( /\ last.kind = "err"
         /\ last.err = ErrFeatureDisabled("yaml")
         /\ last.decoder = "none"
         /\ last.doc = 0 )

\* a .YML file holding valid JSON was refused for the missing feature
C9_Witness ==
    /\ ~yaml
    /\ last.op = "load"
    /\ last.uri.seg = <<"w","f",".","Y","M","L">>
    /\ last.content.syntax = "json"
    /\ last.type \in last.content.shapes
    /\ last.err = [tag |-> "FeatureDisabled", required_feature |-> "yaml"]

C11_InvalidDocumentIsRejected ==
    [][ ( /\ validate
          /\ ncalls' = ncalls + 1
          /\ last'.op \in {"load", "get_or_insert"}
          /\ Decodable(last'.uri, last'.type, last'.content)
          /\ last'.content.violations > 0 )
        => ( /\ last'.kind = "err"
             /\ last'.err = [tag |-> "ValidationFailed", report |-> last'.content.violations]
             /\ last'.rc = 0
             /\ last'.validated
             /\ cache' = cache
             /\ last'.uri \notin DOMAIN cache' ) ]_vars

\* a get_or_insert of a document with three violations has returned
\* ValidationFailed and the URI has no entry
C11_Witness ==
    /\ validate
    /\ last.op = "get_or_insert"
    /\ last.kind = "err"
    /\ last.err = [tag |-> "ValidationFailed", report |-> 3]
    /\ last.uri \notin DOMAIN cache

(***************************************************************************)
(* Validation rules (src/detail/garde.rs,                                  *)
(* src/workflow/definition/detail/garde.rs)                                *)
(*                                                                         *)
(* A rule yields Ok(TRUE) or Err(garde::Error), the error being its        *)
(* message: the format string and the values rendered into it (the         *)
(* backquotes around a {} of the messages are written < >).                *)
(***************************************************************************)
\* garde::Error::new(format!(fmt, args...))
GardeError(fmt, args) == [fmt |-> fmt, args |-> args]

OneMustBeSetAny(field_name_one, field_name_two, field_two, field_one) ==
    IF ~field_one.some \/ ~field_two.some
    THEN Err(GardeError("at least one of <{}> or <{}> must be set",
                        <<field_name_one, field_name_two>>))
    ELSE Ok(TRUE)

\* one_must_be_set(field_name_one, field_name_two, field_two)(field_one, ctx)
OneMustBeSet(field_name_one, field_name_two, field_two, field_one) ==
    IF ~field_one.some /\ ~field_two.some
    THEN Err(GardeError("at least one of <{}> or <{}> must be set",
                        <<field_name_one, field_name_two>>))
    ELSE Ok(TRUE)

\* one_of_three_must_be_set(names..., field_two, field_three)(field_one, ctx)
OneOfThreeMustBeSet(field_name_one, field_name_two, field_name_three, field_two, field_three, field_one) ==
    IF ~field_one.some /\ ~field_two.some /\ ~field_three.some
    THEN Err(GardeError("at least one of <{}>, <{}> or <{}> must be set",
                        <<field_name_one, field_name_two, field_name_three>>))
    ELSE Ok(TRUE)

\* Itertools::duplicates().next(): scanning from the start with the set of
\* items seen, the first item met that was seen before
RECURSIVE FirstDuplicateFrom(_, _, _)
FirstDuplicateFrom(values, i, seen) ==
    IF i > Len(values) THEN None
    ELSE IF values[i] \in seen THEN Some(values[i])
    ELSE FirstDuplicateFrom(values, i + 1, seen \cup {values[i]})

FirstDuplicateByFirstOccurrence(values) ==
    LET firsts == {i \in 1..Len(values) : \E j \in (i + 1)..Len(values) : values[j] = values[i]}
    IN  IF firsts = {} THEN None
        ELSE Some(values[CHOOSE i \in firsts : \A k \in firsts : i <= k])

FirstDuplicate(values) == FirstDuplicateFrom(values, 1, {})

\* unique_values(values, ctx)
UniqueValues(values) ==
    LET dup == FirstDuplicate(values)
    IN  IF dup.some
        THEN Err(GardeError("values must be unique, but found duplicate item <{}>", <<dup.v>>))
        ELSE Ok(TRUE)

(***************************************************************************)
(* Numbers (src/workflow/definition/common.rs) and the rules on them       *)
(***************************************************************************)
IntMax == 2^(IntBits - 1) - 1

IntMin == -(2^(IntBits - 1))

DigitChars == <<"0","1","2","3","4","5","6","7","8","9">>

IsDigit(c) == \E i \in 1..Len(DigitChars) : DigitChars[i] = c

DigitValue(c) == (CHOOSE i \in 1..Len(DigitChars) : DigitChars[i] = c) - 1

\* the value of a string of digits, most significant first
RECURSIVE DigitsValue(_)
DigitsValue(s) ==
    IF s = <<>> THEN 0
    ELSE 10 * DigitsValue(SubSeq(s, 1, Len(s) - 1)) + DigitValue(s[Len(s)])

ErrInvalidInt == [tag |-> "InvalidInt"]

ErrMissingIdentifier == [tag |-> "MissingIdentifier"]

\* str::parse::<i64>: an optional sign, then one or more digits, the value
\* within the range of the type
ParseInt(s) ==
    LET signed == s # <<>> /\ s[1] \in {"+", "-"}
        digits == IF signed THEN SubSeq(s, 2, Len(s)) ELSE s
        value == IF signed /\ s[1] = "-" THEN -DigitsValue(digits) ELSE DigitsValue(digits)
    IN  IF digits # <<>> /\ (\A i \in 1..Len(digits) : IsDigit(digits[i]))
           /\ value >= IntMin /\ value <= IntMax
        THEN Ok(value)
        ELSE Err(ErrInvalidInt)

MustBeANumberNoEmpty(value) ==
    IF ParseInt(value).kind = "ok" THEN Ok(TRUE)
    ELSE Err(GardeError("expected a number, found '{}'", <<value>>))

\* must_be_a_number::<i64, _, _>(value, ctx)
MustBeANumber(value) ==
    IF value = <<>> THEN Ok(TRUE)
    ELSE IF ParseInt(value).kind = "ok" THEN Ok(TRUE)
    ELSE Err(GardeError("expected a number, found '{}'", <<value>>))

\* must_be_zero_or_greater(value, ctx)
MustBeZeroOrGreater(value) ==
    IF value >= 0 THEN Ok(TRUE)
    ELSE Err(GardeError("expected number zero or above, got {}", <<value>>))

MustBeAlways(expected, value) == Ok(TRUE)

\* must_be(expected)(value, ctx)
MustBe(expected, value) ==
    IF value = expected THEN Ok(TRUE)
    ELSE Err(GardeError("expected '{}', got '{}'", <<expected, value>>))

\* NonNegativeNumber::Number(n) and NonNegativeNumber::String(s)
NumberForm(n) == [form |-> "Number", n |-> n]

StringForm(str) == [form |-> "String", s |-> str]

\* NonNegativeNumber::value
NonNegativeNumberValue(v) ==
    IF v.form = "Number" THEN Ok(v.n) ELSE ParseInt(v.s)

\* Display for NonNegativeNumber
NonNegativeNumberDisplay(v) == IF v.form = "Number" THEN v.n ELSE v.s

\* TryFrom<&NonNegativeNumber<T>> for ValidatedNonNegativeNumber<T>
TryIntoValidated(v) == NonNegativeNumberValue(v)

\* the % of i64, for the cases in which it does not panic: the remainder
\* has the sign of the dividend
RustRem(a, m) ==
    LET absM == IF m < 0 THEN -m ELSE m
    IN  IF a >= 0 THEN a % absM ELSE -((-a) % absM)

\* the % of i64 panics on a zero divisor and on i64::MIN % -1
RemPanics(a, m) == m = 0 \/ (a = IntMin /\ m = -1)

MustBeMultipleOfQuotient(multiple, value) ==
    LET converted == TryIntoValidated(value)
    IN  IF converted.kind = "ok"
        THEN IF RemPanics(converted.v, multiple) THEN [kind |-> "panic"]
             ELSE IF converted.v >= multiple
             THEN Ok(TRUE)
             ELSE Err(GardeError("expected {} to be a multiple of {}",
                                 <<converted.v, multiple>>))
        ELSE Err(GardeError("expected valid number, got '{}': {}",
                            <<NonNegativeNumberDisplay(value), converted.err>>))

\* must_be_multiple_of(multiple)(value, ctx)
MustBeMultipleOf(multiple, value) ==
    LET converted == TryIntoValidated(value)
    IN  IF converted.kind = "ok"
        THEN IF RemPanics(converted.v, multiple) THEN [kind |-> "panic"]
             ELSE IF RustRem(converted.v, multiple) # 0
             THEN Err(GardeError("expected {} to be a multiple of {}",
                                 <<converted.v, multiple>>))
             ELSE Ok(TRUE)
        ELSE Err(GardeError("expected valid number, got '{}': {}",
                            <<NonNegativeNumberDisplay(value), converted.err>>))

\* must_be_optional_multiple_of(multiple)(value, ctx)
MustBeOptionalMultipleOf(multiple, value) ==
    IF value.some THEN MustBeMultipleOf(multiple, value.v) ELSE Ok(TRUE)

(***************************************************************************)
(* Rules of the workflow definition                                        *)
(* (src/workflow/definition/detail/garde.rs) and Identifier::id            *)
(***************************************************************************)
CompensationRuleNeedsBoth(transition, end, used_for_compensation) ==
    IF ~used_for_compensation /\ (~transition.some \/ ~end.some)
    THEN Err(GardeError("", <<>>))
    ELSE Ok(TRUE)

\* if_not_used_for_compensation_then_must_have_transition_or_end(transition, end)
\*     (used_for_compensation, ctx)
CompensationRule(transition, end, used_for_compensation) ==
    IF ~used_for_compensation /\ ~transition.some /\ ~end.some
    THEN Err(GardeError("", <<>>))
    ELSE Ok(TRUE)

MandatoryForAllEvents(kind, source) ==
    IF ~source.some
    THEN Err(GardeError("event source is mandatory for consumed events", <<>>))
    ELSE Ok(TRUE)

\* mandatory_for_consumed_events(kind)(source, ctx)
MandatoryForConsumedEvents(kind, source) ==
    IF kind = "Consumed" /\ ~source.some
    THEN Err(GardeError("event source is mandatory for consumed events", <<>>))
    ELSE Ok(TRUE)

\* Option::or
OptionOr(a, b) == IF a.some THEN a ELSE b

IdentifierIdKeyFirst(identifier) ==
    LET found == OptionOr(identifier.key, identifier.id)
    IN  IF found.some THEN Ok(found.v) ELSE Err(ErrMissingIdentifier)

\* Identifier::id
IdentifierId(identifier) ==
    LET found == OptionOr(identifier.id, identifier.key)
    IN  IF found.some THEN Ok(found.v) ELSE Err(ErrMissingIdentifier)

(***************************************************************************)
(* Validation of a workflow definition: what #[derive(garde::Validate)]    *)
(* generates from the garde attributes of the fields                       *)
(* (src/workflow/definition.rs).  Every rule of every field is applied in  *)
(* turn and each failure is appended to the report with the path of its    *)
(* field.  Strings are sequences of characters.                            *)
(***************************************************************************)
\* garde's length(min = 1) on a String or a Vec
LengthMinOne(value) ==
    IF Len(value) < 1 THEN Err(GardeError("length is lower than {}", <<1>>)) ELSE Ok(TRUE)

\* garde's length(min = 1) on an Option: an absent value passes
LengthMinOneOpt(value) == IF value.some THEN LengthMinOne(value.v) ELSE Ok(TRUE)

\* Report::append for a rule that failed
Entries(path, result) ==
    IF result.kind = "err" THEN <<[path |-> path, error |-> result.err]>> ELSE <<>>

\* the path component of an element of a Vec
IndexNames == <<"0", "1", "2", "3">>

ValidateIdentifierNoKeyLength(path, identifier) ==
    Entries(path \o <<"id">>, LengthMinOneOpt(identifier.id))
    \o Entries(path \o <<"id">>, OneMustBeSet("id", "key", identifier.key, identifier.id))

\* Identifier (a workflow's id and key)
ValidateIdentifier(path, identifier) ==
    Entries(path \o <<"id">>, LengthMinOneOpt(identifier.id))
    \o Entries(path \o <<"id">>, OneMustBeSet("id", "key", identifier.key, identifier.id))
    \o Entries(path \o <<"key">>, LengthMinOneOpt(identifier.key))

\* End::Simple(bool) and End::Complex { .. } with its fields at their defaults
EndSimple(b) == [variant |-> "Simple", b |-> b]

EndComplex == [variant |-> "Complex", b |-> FALSE]

\* End: the rule of the field of End::Simple (the path of the field of a
\* one-field variant is the path of the value)
ValidateEnd(path, end) ==
    IF end.variant = "Simple" THEN Entries(path, MustBe(TRUE, end.b)) ELSE <<>>

\* Transition::ByName(String)
ValidateTransition(path, transition) == Entries(path, LengthMinOne(transition))

\* SleepState: the fields id, end, transition, used_for_compensation (the others
\* are skipped or absent)
ValidateSleepState(path, state) ==
    Entries(path \o <<"id">>, LengthMinOneOpt(state.id))
    \o (IF state.end.some THEN ValidateEnd(path \o <<"end">>, state.end.v) ELSE <<>>)
    \o (IF state.transition.some
        THEN ValidateTransition(path \o <<"transition">>, state.transition.v) ELSE <<>>)
    \o Entries(path \o <<"used_for_compensation">>,
               CompensationRule(state.transition, state.end, state.used_for_compensation))

\* the dive into the elements of WorkflowDefinition::states
RECURSIVE ValidateStatesFrom(_, _, _)
ValidateStatesFrom(path, states, i) ==
    IF i > Len(states) THEN <<>>
    ELSE ValidateSleepState(path \o <<IndexNames[i]>>, states[i])
         \o ValidateStatesFrom(path, states, i + 1)

ValidateWorkflowFirstOnly(doc) ==
    LET report == ValidateIdentifier(<<"identifier">>, doc.identifier)
                  \o Entries(<<"version">>, LengthMinOneOpt(doc.version))
                  \o Entries(<<"spec_version">>, LengthMinOne(doc.spec_version))
                  \o ValidateStatesFrom(<<"states">>, doc.states, 1)
                  \o Entries(<<"states">>, LengthMinOne(doc.states))
    IN  IF report = <<>> THEN report ELSE <<report[1]>>

\* WorkflowDefinition::validate_into: the fields identifier, version,
\* spec_version, states (the others are skipped, absent or pass their rule)
ValidateWorkflow(doc) ==
    ValidateIdentifier(<<"identifier">>, doc.identifier)
    \o Entries(<<"version">>, LengthMinOneOpt(doc.version))
    \o Entries(<<"spec_version">>, LengthMinOne(doc.spec_version))
    \o ValidateStatesFrom(<<"states">>, doc.states, 1)
    \o Entries(<<"states">>, LengthMinOne(doc.states))

\* garde::Validate::validate: Ok if the report is empty
GardeValidate(doc) ==
    LET report == ValidateWorkflow(doc)
    IN  IF report = <<>> THEN Ok(TRUE) ELSE Err(report)

\* ValidateDefinition::validate_definition on a workflow definition, with
\* feature "validate" (src/validation.rs)
ValidateWorkflowDefinition(doc) ==
    LET r == GardeValidate(doc)
    IN  IF r.kind = "err" THEN Err(ErrValidationFailed(r.err)) ELSE Ok(TRUE)

\* NonNegativeNumber: the rule of the field of Number, the rules of the
\* field of String
ValidateNonNegativeNumber(path, value) ==
    IF value.form = "Number"
    THEN Entries(path, MustBeZeroOrGreater(value.n))
    ELSE Entries(path, LengthMinOne(value.s)) \o Entries(path, MustBeANumber(value.s))

(***************************************************************************)
(* The start of a workflow (src/workflow/definition.rs)                    *)
(***************************************************************************)
\* StartDef::ByName(state_name) and StartDef::Complex { state_name, schedule },
\* the schedule being one that passes its rules
StartByName(state_name) == [variant |-> "ByName", state_name |-> state_name]

StartComplex(state_name) == [variant |-> "Complex", state_name |-> state_name]

\* StartDef::state_name
StartDefStateName(start) == start.state_name

\* State::name
StateName(state) == state.name

\* self.start.as_ref().map(StartDef::state_name)
MapStartDefStateName(start) == IF start.some THEN Some(StartDefStateName(start.v)) ELSE None

\* <[T]>::first
First(xs) == IF Len(xs) > 0 THEN Some(xs[1]) ELSE None

\* self.states.first().map(State::name)
MapStateName(first) == IF first.some THEN Some(StateName(first.v)) ELSE None

StartStateNameOfStartOnly(doc) == MapStartDefStateName(doc.start)

\* WorkflowDefinition::start_state_name
StartStateName(doc) ==
    LET fromStart == MapStartDefStateName(doc.start)
    IN  IF fromStart.some THEN fromStart ELSE MapStateName(First(doc.states))

\* StartDef: the rule of the state name (the path of the field of a
\* one-field variant is the path of the value)
ValidateStart(path, start) ==
    Entries(IF start.variant = "ByName" THEN path ELSE path \o <<"state_name">>,
            LengthMinOne(start.state_name))

\* WorkflowDefinition::validate_into for a definition that may have a start
ValidateWorkflowWithStart(doc) ==
    ValidateIdentifier(<<"identifier">>, doc.identifier)
    \o Entries(<<"version">>, LengthMinOneOpt(doc.version))
    \o (IF doc.start.some THEN ValidateStart(<<"start">>, doc.start.v) ELSE <<>>)
    \o Entries(<<"spec_version">>, LengthMinOne(doc.spec_version))
    \o ValidateStatesFrom(<<"states">>, doc.states, 1)
    \o Entries(<<"states">>, LengthMinOne(doc.states))

(***************************************************************************)
(* The rules and Identifier::id called on their own: the arguments of the  *)
(* call are drawn at the start, each call applies the function to them     *)
(***************************************************************************)
\* an optional string: absent, present and empty, present
OptStrings == {None, Some(<<>>), Some(<<"a">>)}

\* the pairs and triples of field names given to the one-of-N rules
NamePairs == {<<"id", "key">>, <<"transition", "end">>}

NameTriples == {<<"function_ref", "event_ref", "sub_flow_ref">>}

\* the items of the sequences given to unique_values
Items == {"x", "y", "z"}

\* the sequences of at most n items
SeqsUpTo(S, n) == UNION {[1..k -> S] : k \in 0..n}

\* the strings given in place of a number
NumStrings ==
    { <<>>, <<"0">>, <<"7">>, <<"1","0">>, <<"+","1","0">>, <<"-","7">>, <<"-","1","0">>,
      <<"0","1","0">>, <<"9","9","9">>, <<"-","9","9","9">>, <<"a","b","c">>, <<"1","x">>,
      <<" ","7">>, <<"-">>, <<"+">>, <<"1",".","5">> }

\* the numbers given as numbers, and the multiples asked for
Numbers == {IntMin, -10, -7, 0, 7, 10, IntMax}

Multiples == {-5, -1, 0, 1, 2, 5}

NonNegativeNumbers == {NumberForm(n) : n \in Numbers} \cup {StringForm(str) : str \in NumStrings}

EventKinds == {"Consumed", "Produced"}

\* the sleep states and the workflow definitions given to validate_definition
SleepStates ==
    [id : {Some(<<>>), Some(<<"s">>)},
     end : {None, Some(EndSimple(TRUE)), Some(EndSimple(FALSE)), Some(EndComplex)},
     transition : {None, Some(<<"n">>)},
     used_for_compensation : BOOLEAN]

WorkflowDefinitions ==
    [identifier : [id : OptStrings, key : OptStrings],
     version : {None, Some(<<>>)},
     spec_version : {<<>>, <<"0",".","8">>},
     states : SeqsUpTo(SleepStates, MaxStates)]

\* the definitions given to start_state_name: with or without a start, with
\* named states, with and without violations
NamedSleepStates ==
    [id : {None},
     name : {<<>>, <<"s">>},
     end : {Some(EndSimple(TRUE)), Some(EndSimple(FALSE))},
     transition : {None},
     used_for_compensation : {FALSE}]

StartedWorkflowDefinitions ==
    [identifier : {[id |-> Some(<<"a">>), key |-> None], [id |-> None, key |-> None]},
     version : {None},
     start : {None, Some(StartByName(<<>>)), Some(StartByName(<<"g","o">>)),
              Some(StartComplex(<<"g","o">>))},
     spec_version : {<<"0",".","8">>},
     states : SeqsUpTo(NamedSleepStates, MaxStates)]

\* the state before any call, the arguments being drawn
InitRulesWith(a) ==
    /\ yaml = TRUE
    /\ validate = TRUE
    /\ cache = [u \in {} |-> 0]
    /\ nextRc = 0
    /\ loads = [u \in {} |-> 0]
    /\ ncalls = 0
    /\ panicked = FALSE
    /\ last = NoCall
    /\ arg = a

InitRules ==
    \/ \E names \in NamePairs, one \in OptStrings, two \in OptStrings :
         InitRulesWith([rule |-> "one_must_be_set", names |-> names,
                        field_one |-> one, field_two |-> two])
    \/ \E names \in NameTriples, one \in OptStrings, two \in OptStrings, three \in OptStrings :
         InitRulesWith([rule |-> "one_of_three_must_be_set", names |-> names,
                        field_one |-> one, field_two |-> two, field_three |-> three])
    \/ \E values \in SeqsUpTo(Items, MaxValues) :
         InitRulesWith([rule |-> "unique_values", values |-> values])
    \/ \E value \in NumStrings :
         InitRulesWith([rule |-> "must_be_a_number", value |-> value])
    \/ \E expected \in BOOLEAN, value \in BOOLEAN :
         InitRulesWith([rule |-> "must_be", expected |-> expected, value |-> value])
    \/ \E expected \in Numbers, value \in Numbers :
         InitRulesWith([rule |-> "must_be", expected |-> expected, value |-> value])
    \/ \E multiple \in Multiples, value \in NonNegativeNumbers :
         InitRulesWith([rule |-> "must_be_multiple_of", multiple |-> multiple, value |-> value])
    \/ \E multiple \in Multiples, value \in {None} \cup {Some(v) : v \in NonNegativeNumbers} :
         InitRulesWith([rule |-> "must_be_optional_multiple_of", multiple |-> multiple,
                        value |-> value])
    \/ \E transition \in OptStrings, end \in {None, Some(EndSimple(TRUE))}, flag \in BOOLEAN :
         InitRulesWith([rule |-> "if_not_used_for_compensation_then_must_have_transition_or_end",
                        transition |-> transition, end |-> end, used_for_compensation |-> flag])
    \/ \E kind \in EventKinds, source \in OptStrings :
         InitRulesWith([rule |-> "mandatory_for_consumed_events", kind |-> kind,
                        source |-> source])
    \/ \E id \in OptStrings, key \in {None, Some(<<>>), Some(<<"k">>)} :
         InitRulesWith([rule |-> "Identifier::id", identifier |-> [id |-> id, key |-> key]])
    \/ \E doc \in WorkflowDefinitions :
         InitRulesWith([rule |-> "validate_definition", doc |-> doc])
    \/ \E doc \in StartedWorkflowDefinitions :
         InitRulesWith([rule |-> "start_state_name", doc |-> doc])
    \/ \E value \in NonNegativeNumbers :
         InitRulesWith([rule |-> "NonNegativeNumber::value", value |-> value])
    \/ \E id \in OptStrings, key \in {None, Some(<<>>), Some(<<"k">>)} :
         InitRulesWith([rule |-> "Identifier::validate", identifier |-> [id |-> id, key |-> key]])

\* a call returns res, or panics and returns nothing
Returns(res) ==
    /\ ~panicked
    /\ ncalls < MaxCalls
    /\ ncalls' = ncalls + 1
    /\ last' = [op |-> arg.rule, in |-> arg, res |-> res]
    /\ panicked' = (res.kind = "panic")
    /\ UNCHANGED <<yaml, validate, cache, nextRc, loads, arg>>

CallOneMustBeSet ==
    /\ arg.rule = "one_must_be_set"
    /\ Returns(OneMustBeSet(arg.names[1], arg.names[2], arg.field_two, arg.field_one))

CallOneOfThreeMustBeSet ==
    /\ arg.rule = "one_of_three_must_be_set"
    /\ Returns(OneOfThreeMustBeSet(arg.names[1], arg.names[2], arg.names[3],
                                   arg.field_two, arg.field_three, arg.field_one))

CallUniqueValues ==
    /\ arg.rule = "unique_values"
    /\ Returns(UniqueValues(arg.values))

CallMustBeANumber ==
    /\ arg.rule = "must_be_a_number"
    /\ Returns(MustBeANumber(arg.value))

CallMustBe ==
    /\ arg.rule = "must_be"
    /\ Returns(MustBe(arg.expected, arg.value))

CallMustBeMultipleOf ==
    /\ arg.rule = "must_be_multiple_of"
    /\ Returns(MustBeMultipleOf(arg.multiple, arg.value))

CallMustBeOptionalMultipleOf ==
    /\ arg.rule = "must_be_optional_multiple_of"
    /\ Returns(MustBeOptionalMultipleOf(arg.multiple, arg.value))

CallCompensationRule ==
    /\ arg.rule = "if_not_used_for_compensation_then_must_have_transition_or_end"
    /\ Returns(CompensationRule(arg.transition, arg.end, arg.used_for_compensation))

CallMandatoryForConsumedEvents ==
    /\ arg.rule = "mandatory_for_consumed_events"
    /\ Returns(MandatoryForConsumedEvents(arg.kind, arg.source))

CallIdentifierId ==
    /\ arg.rule = "Identifier::id"
    /\ Returns(IdentifierId(arg.identifier))

CallValidateDefinition ==
    /\ arg.rule = "validate_definition"
    /\ Returns(ValidateWorkflowDefinition(arg.doc))

\* start_state_name on a definition, with the report its validation gives
CallStartStateName ==
    /\ arg.rule = "start_state_name"
    /\ Returns([kind |-> "ok", v |-> StartStateName(arg.doc),
                report |-> ValidateWorkflowWithStart(arg.doc)])

\* value() of a NonNegativeNumber, with the report its validation gives
CallNonNegativeNumberValue ==
    /\ arg.rule = "NonNegativeNumber::value"
    /\ Returns([kind |-> "ok", v |-> NonNegativeNumberValue(arg.value),
                report |-> ValidateNonNegativeNumber(<<"max_attempts">>, arg.value)])

\* id() of an Identifier, with the report its validation gives
CallValidatedIdentifierId ==
    /\ arg.rule = "Identifier::validate"
    /\ Returns([kind |-> "ok", v |-> IdentifierId(arg.identifier),
                report |-> ValidateIdentifier(<<>>, arg.identifier)])

NextRules ==
    \/ CallOneMustBeSet
    \/ CallOneOfThreeMustBeSet
    \/ CallUniqueValues
    \/ CallMustBeANumber
    \/ CallMustBe
    \/ CallMustBeMultipleOf
    \/ CallMustBeOptionalMultipleOf
    \/ CallCompensationRule
    \/ CallMandatoryForConsumedEvents
    \/ CallIdentifierId
    \/ CallValidateDefinition
    \/ CallStartStateName
    \/ CallNonNegativeNumberValue
    \/ CallValidatedIdentifierId

SpecRules == InitRules /\ [][NextRules]_vars

(***************************************************************************)
(* Properties of the rules, of the validation of a document and of         *)
(* Identifier::id, under SpecRules                                         *)
(***************************************************************************)
\* the call returned Ok
Accepted == last.res.kind = "ok"

\* the call returned an error
Rejected == last.res.kind = "err"

\* the entries of the report that validate_definition returned
Report == IF Rejected THEN last.res.err.report ELSE <<>>

\* the number of states of the document with property P(state)
CountStates(states, P(_)) == Cardinality({i \in 1..Len(states) : P(states[i])})

\* the rule violations of a document, counted field by field
PresentAndEmpty(field) == field.some /\ field.v = <<>>

EndIsFalse(state) == state.end.some /\ state.end.v.variant = "Simple" /\ ~state.end.v.b

NoWayOut(state) == ~state.used_for_compensation /\ ~state.transition.some /\ ~state.end.some

ViolationCount(doc) ==
    (IF PresentAndEmpty(doc.identifier.id) THEN 1 ELSE 0)
    + (IF ~doc.identifier.id.some /\ ~doc.identifier.key.some THEN 1 ELSE 0)
    + (IF PresentAndEmpty(doc.identifier.key) THEN 1 ELSE 0)
    + (IF PresentAndEmpty(doc.version) THEN 1 ELSE 0)
    + (IF doc.spec_version = <<>> THEN 1 ELSE 0)
    + (IF doc.states = <<>> THEN 1 ELSE 0)
    + CountStates(doc.states, LAMBDA state : PresentAndEmpty(state.id))
    + CountStates(doc.states, EndIsFalse)
    + CountStates(doc.states, NoWayOut)

\* C12: validate_definition applies every rule of every field of the
\* document and of its nested values: the report has exactly one entry per
\* violation, any two entries differ in their path or their message, and a
\* document without violation is accepted.
C12_EveryViolationIsReported ==
    last.op = "validate_definition"
    => ( /\ Len(Report) = ViolationCount(last.in.doc)
         /\ Accepted <=> ViolationCount(last.in.doc) = 0
         /\ Rejected => last.res.err.tag = "ValidationFailed"
         /\ \A i, j \in 1..Len(Report) :
              i # j => \/ Report[i].path # Report[j].path
                       \/ Report[i].error.fmt # Report[j].error.fmt )

\* a document with three violations, in a field of the document, in the
\* nested identifier and in a nested state, got a report of three entries
C12_Witness ==
    /\ last.op = "validate_definition"
    /\ Len(Report) = 3
    /\ \E i, j, k \in 1..3 :
         /\ Report[i].path = <<"spec_version">>
         /\ Report[j].path = <<"identifier", "id">>
         /\ Report[k].path[1] = "states"

\* C13: one_must_be_set rejects if and only if both fields are absent and
\* one_of_three_must_be_set if and only if the three fields are absent, with
\* a message made of all the field names; they accept as soon as one field
\* is present, empty or not, and when several are.
C13_OneOfNFieldsMustBeSet ==
    /\ last.op = "one_must_be_set"
       => ( /\ Rejected <=> (~last.in.field_one.some /\ ~last.in.field_two.some)
            /\ Accepted <=> (last.in.field_one.some \/ last.in.field_two.some)
            /\ Rejected => ( /\ last.res.err.fmt = "at least one of <{}> or <{}> must be set"
                             /\ last.res.err.args = last.in.names ) )
    /\ last.op = "one_of_three_must_be_set"
       => ( /\ Rejected <=> ( /\ ~last.in.field_one.some
                              /\ ~last.in.field_two.some
                              /\ ~last.in.field_three.some )
            /\ Accepted <=> ( \/ last.in.field_one.some
                              \/ last.in.field_two.some
                              \/ last.in.field_three.some )
            /\ Rejected => ( /\ last.res.err.fmt
                                  = "at least one of <{}>, <{}> or <{}> must be set"
                             /\ last.res.err.args = last.in.names ) )

\* one_must_be_set has accepted although its own field is absent, the other
\* one being present
C13_Witness ==
    /\ last.op = "one_must_be_set"
    /\ ~last.in.field_one.some
    /\ last.in.field_two.some
    /\ Accepted

SetMin(S) == CHOOSE m \in S : \A n \in S : m <= n

\* the positions of values whose item occurs at an earlier position
Repeats(values) == {j \in 1..Len(values) : \E i \in 1..(j - 1) : values[i] = values[j]}

\* C14: unique_values rejects if and only if two items of the sequence are
\* equal, and its message then shows one item: the one at the first position
\* whose item occurred before; <<x, y, x>> is rejected for x.
C14_FirstDuplicateIsReported ==
    last.op = "unique_values"
    => ( /\ Rejected <=> Repeats(last.in.values) # {}
         /\ Accepted <=> Repeats(last.in.values) = {}
         /\ Rejected
            => ( /\ last.res.err.fmt = "values must be unique, but found duplicate item <{}>"
                 /\ last.res.err.args = <<last.in.values[SetMin(Repeats(last.in.values))]>> )
         /\ last.in.values = <<"x", "y", "x">> => Rejected /\ last.res.err.args = <<"x">> )

\* a sequence in which y is repeated before x is: y is the item reported
C14_Witness ==
    /\ last.op = "unique_values"
    /\ last.in.values = <<"x", "y", "y", "x">>
    /\ Rejected
    /\ last.res.err.args = <<"y">>

\* the strings of NumStrings that are numbers, and the number each one is:
\* an optional sign and digits, within the range of the type
NumericStrings ==
    { <<"0">>, <<"7">>, <<"1","0">>, <<"+","1","0">>, <<"-","7">>, <<"-","1","0">>,
      <<"0","1","0">> }

NumericValue(str) ==
    CASE str = <<"0">> -> 0
      [] str = <<"7">> -> 7
      [] str = <<"1","0">> -> 10
      [] str = <<"+","1","0">> -> 10
      [] str = <<"-","7">> -> -7
      [] str = <<"-","1","0">> -> -10
      [] str = <<"0","1","0">> -> 10

\* C15: must_be_a_number accepts the empty string, accepts the non-empty
\* strings that are numbers of the type, and rejects every other string with
\* a message that shows the string as it is.
C15_NumberOrEmptyString ==
    last.op = "must_be_a_number"
    => ( /\ last.in.value = <<>> => Accepted
         /\ last.in.value \in NumericStrings => Accepted
         /\ (last.in.value # <<>> /\ last.in.value \notin NumericStrings)
            => ( /\ Rejected
                 /\ last.res.err.fmt = "expected a number, found '{}'"
                 /\ last.res.err.args = <<last.in.value>> ) )

\* the empty string was accepted
C15_Witness ==
    /\ last.op = "must_be_a_number"
    /\ last.in.value = <<>>
    /\ Accepted

\* the number that a value stands for, if it is numeric
IsNumeric(value) == value.form = "Number" \/ value.s \in NumericStrings

NumericForm(value) == IF value.form = "Number" THEN value.n ELSE NumericValue(value.s)

\* n is a whole number of times m
IsMultipleOf(n, m) == \E k \in (IntMin - 1)..(IntMax + 1) : n = k * m

\* the remainder of n by m is defined: m is not zero, and the quotient is in
\* the range of the type
RemainderDefined(n, m) == m # 0 /\ ~(n = IntMin /\ m = -1)

\* C16: where the remainder is defined, must_be_multiple_of(m) accepts a
\* number or a numeric string if and only if its number is a multiple of m
\* (with m = 5: 10 and "10" are accepted, 7 is rejected);
\* must_be_optional_multiple_of(m) accepts an absent value and decides on a
\* present one as must_be_multiple_of(m) does.
C16_MultipleOf ==
    /\ ( /\ last.op = "must_be_multiple_of"
         /\ IsNumeric(last.in.value)
         /\ RemainderDefined(NumericForm(last.in.value), last.in.multiple) )
       => ( /\ Accepted <=> IsMultipleOf(NumericForm(last.in.value), last.in.multiple)
            /\ Rejected <=> ~IsMultipleOf(NumericForm(last.in.value), last.in.multiple)
            /\ (last.in.multiple = 5 /\ last.in.value = NumberForm(10)) => Accepted
            /\ (last.in.multiple = 5 /\ last.in.value = StringForm(<<"1","0">>)) => Accepted
            /\ (last.in.multiple = 5 /\ last.in.value = NumberForm(7)) => Rejected )
    /\ last.op = "must_be_optional_multiple_of"
       => ( /\ ~last.in.value.some => Accepted
            /\ ( /\ last.in.value.some
                 /\ IsNumeric(last.in.value.v)
                 /\ RemainderDefined(NumericForm(last.in.value.v), last.in.multiple) )
               => ( /\ Accepted
                       <=> IsMultipleOf(NumericForm(last.in.value.v), last.in.multiple)
                    /\ Rejected
                       <=> ~IsMultipleOf(NumericForm(last.in.value.v), last.in.multiple) ) )

\* must_be_multiple_of(5) has rejected 7
C16_Witness ==
    /\ last.op = "must_be_multiple_of"
    /\ last.in.multiple = 5
    /\ last.in.value = NumberForm(7)
    /\ Rejected

\* C17: the rule of used_for_compensation accepts if and only if the flag is
\* true or transition is present or end is present, and rejects exactly when
\* the flag is false and both are absent.
C17_CompensationOrWayOut ==
    last.op = "if_not_used_for_compensation_then_must_have_transition_or_end"
    => ( /\ Accepted <=> ( \/ last.in.used_for_compensation
                           \/ last.in.transition.some
                           \/ last.in.end.some )
         /\ Rejected <=> ( /\ ~last.in.used_for_compensation
                           /\ ~last.in.transition.some
                           /\ ~last.in.end.some ) )

\* a state that is not used for compensation was accepted for its
\* transition alone
C17_Witness ==
    /\ last.op = "if_not_used_for_compensation_then_must_have_transition_or_end"
    /\ ~last.in.used_for_compensation
    /\ last.in.transition.some
    /\ ~last.in.end.some
    /\ Accepted

\* C18: mandatory_for_consumed_events rejects exactly when the kind is
\* Consumed and the source is absent; it accepts a Produced event with or
\* without a source and a Consumed event with a source.
C18_SourceMandatoryForConsumed ==
    last.op = "mandatory_for_consumed_events"
    => ( /\ Rejected <=> (last.in.kind = "Consumed" /\ ~last.in.source.some)
         /\ Accepted <=> (last.in.kind = "Produced" \/ last.in.source.some) )

\* a Produced event without a source was accepted
C18_Witness ==
    /\ last.op = "mandatory_for_consumed_events"
    /\ last.in.kind = "Produced"
    /\ ~last.in.source.some
    /\ Accepted

\* the report has an entry for the end of the state at position i
EndReported(i) ==
    \E e \in 1..Len(Report) :
       /\ Report[e].path = <<"states", IndexNames[i], "end">>
       /\ Report[e].error.fmt = "expected '{}', got '{}'"
       /\ Report[e].error.args = <<TRUE, FALSE>>

\* C19: must_be(expected) accepts a value if and only if it is equal to
\* expected; in a document, the end of a state in its short form is reported
\* if and only if it is false, so that a document with an end of false is
\* rejected by the validation.
C19_MustBeTheExpectedValue ==
    /\ last.op = "must_be"
       => ( /\ Accepted <=> last.in.value = last.in.expected
            /\ Rejected <=> last.in.value # last.in.expected )
    /\ last.op = "validate_definition"
       => \A i \in 1..Len(last.in.doc.states) :
             LET end == last.in.doc.states[i].end
             IN  /\ (end.some /\ end.v.variant = "Simple")
                    => (EndReported(i) <=> ~end.v.b)
                 /\ (end.some /\ end.v.variant = "Simple" /\ ~end.v.b) => Rejected
                 /\ (~end.some \/ end.v.variant # "Simple") => ~EndReported(i)

\* a document whose only violation is an end of false was rejected
C19_Witness ==
    /\ last.op = "validate_definition"
    /\ Len(last.in.doc.states) = 1
    /\ last.in.doc.states[1].end = Some(EndSimple(FALSE))
    /\ Len(Report) = 1
    /\ EndReported(1)

\* C20: Identifier::id returns the id if there is one, whatever the key;
\* the key if there is no id and there is a key; and MissingIdentifier
\* exactly when there is neither.
C20_IdThenKey ==
    last.op = "Identifier::id"
    => LET id == last.in.identifier.id
           key == last.in.identifier.key
       IN  /\ id.some => (Accepted /\ last.res.v = id.v)
           /\ (~id.some /\ key.some) => (Accepted /\ last.res.v = key.v)
           /\ (~id.some /\ ~key.some) => (Rejected /\ last.res.err = [tag |-> "MissingIdentifier"])
           /\ Rejected => (~id.some /\ ~key.some)

\* the id was returned although there is a key as well
C20_Witness ==
    /\ last.op = "Identifier::id"
    /\ last.in.identifier.id = Some(<<"a">>)
    /\ last.in.identifier.key = Some(<<"k">>)
    /\ Accepted
    /\ last.res.v = <<"a">>

LastSleepState ==
    [id |-> None, end |-> Some(EndSimple(TRUE)), transition |-> None,
     used_for_compensation |-> FALSE]

\* the workflow definition that serde makes of the bytes of document id: one
\* with an id, one with a key only, one with three violations, one with an
\* id and a key
DecodedWorkflow(id) ==
    CASE id = 1 -> [identifier |-> [id |-> Some(<<"h","w">>), key |-> None],
                    version |-> Some(<<"1">>), spec_version |-> <<"0",".","8">>,
                    states |-> <<LastSleepState>>]
      [] id = 2 -> [identifier |-> [id |-> None, key |-> Some(<<"k">>)],
                    version |-> None, spec_version |-> <<"0",".","8">>,
                    states |-> <<LastSleepState>>]
      [] id = 3 -> [identifier |-> [id |-> None, key |-> None],
                    version |-> None, spec_version |-> <<>>,
                    states |-> <<>>]
      [] id = 4 -> [identifier |-> [id |-> Some(<<"g">>), key |-> Some(<<"k","2">>)],
                    version |-> None, spec_version |-> <<"0",".","8">>,
                    states |-> <<LastSleepState>>]

\* the identifier written in each document that has one
ExpectedIdentifier(id) ==
    CASE id = 1 -> <<"h","w">>
      [] id = 2 -> <<"k">>
      [] id = 4 -> <<"g">>

\* C22: on a fresh cache, get_or_insert::<WorkflowDefinition>(uri) of a
\* readable file:// resource with a supported extension (json, or yaml and
\* yml with the yaml feature) that holds a workflow definition without
\* violation succeeds, and id() of the definition returned is the identifier
\* written in the document; the violations that the loader finds in a
\* document are those that the validation of the decoded definition reports.
C22_ValidDocumentLoadsWithItsIdentifier ==
    ( /\ last.op = "get_or_insert"
      /\ ncalls = 1
      /\ last.type = TypeWorkflow
      /\ Decodable(last.uri, last.type, last.content) )
    => ( /\ last.content.violations = Len(ValidateWorkflow(DecodedWorkflow(last.content.id)))
         /\ last.content.violations = 0
            => ( /\ last.kind = "ok"
                 /\ ~last.hit
                 /\ IdentifierId(DecodedWorkflow(last.doc).identifier)
                      = [kind |-> "ok", v |-> ExpectedIdentifier(last.content.id)] ) )

\* a definition in a YAML file was returned by a fresh cache and its
\* identifier is its key
C22_Witness ==
    /\ last.op = "get_or_insert"
    /\ ncalls = 1
    /\ last.kind = "ok"
    /\ last.type = TypeWorkflow
    /\ last.decoder = "yaml"
    /\ validate
    /\ IdentifierId(DecodedWorkflow(last.doc).identifier) = [kind |-> "ok", v |-> <<"k">>]

(***************************************************************************)
(* The conversion of the argument of get_or_insert into a Url              *)
(* (src/cache.rs, src/error.rs, src/detail.rs)                             *)
(*                                                                         *)
(* The argument is a Url, or a string given as its tokens: scheme, ":",    *)
(* "//", host, "/", last path segment.                                     *)
(***************************************************************************)
FromUrl(uri) == [form |-> "Url", uri |-> uri]

FromStr(text) == [form |-> "Str", text |-> text]

ErrInvalidUrl(parseError) == [tag |-> "InvalidUrl", source |-> parseError]

\* the scheme of a URL is lower-cased by the parser
SchemeToLowercase(scheme) ==
    CASE scheme = "FILE" -> "file"
      [] scheme = "File" -> "file"
      [] OTHER -> scheme

\* the schemes whose URLs must have a host
SchemesWithHost == {"http", "https", "ftp"}

ParseUrlAnyHost(text) ==
    IF Len(text) < 2 \/ text[1] = "" \/ text[2] # ":"
    THEN Err("RelativeUrlWithoutBase")
    ELSE Ok(Uri(SchemeToLowercase(text[1]),
                IF Len(text) >= 4 THEN text[4] ELSE "",
                IF Len(text) >= 6 THEN text[6] ELSE <<>>))

\* Url::parse: a string without a scheme is a relative URL and there is no
\* base; a URL of a scheme that needs a host must have one
ParseUrl(text) ==
    IF Len(text) < 2 \/ text[1] = "" \/ text[2] # ":"
    THEN Err("RelativeUrlWithoutBase")
    ELSE LET scheme == SchemeToLowercase(text[1])
             host == IF Len(text) >= 4 THEN text[4] ELSE ""
         IN  IF scheme \in SchemesWithHost /\ host = ""
             THEN Err("EmptyHost")
             ELSE Ok(Uri(scheme, host, IF Len(text) >= 6 THEN text[6] ELSE <<>>))

\* uri.try_into(): the conversion of a Url does not fail and its error type
\* is Infallible, that of a string is Url::parse and its error type is
\* url::ParseError
TryIntoUrl(input) ==
    IF input.form = "Url"
    THEN [kind |-> "ok", v |-> input.uri, errType |-> "Infallible"]
    ELSE LET parsed == ParseUrl(input.text)
         IN  IF parsed.kind = "ok"
             THEN [kind |-> "ok", v |-> parsed.v, errType |-> "ParseError"]
             ELSE [kind |-> "err", err |-> parsed.err, errType |-> "ParseError"]

OptFromNever(errType, value) == None

\* OptFrom<E> for Error: Some(value.into()) for an E that converts into
\* Error, None for Infallible
OptFrom(errType, value) ==
    IF errType = "Infallible" THEN None ELSE Some(ErrInvalidUrl(value))

\* the first statement of get_or_insert: try_into, map_err with into_opt and
\* expect, and the ? operator
ConvertUri(input) ==
    LET converted == TryIntoUrl(input)
    IN  IF converted.kind = "ok" THEN Ok(converted.v)
        ELSE LET error == OptFrom(converted.errType, converted.err)
             IN  IF error.some THEN Err(error.v) ELSE [kind |-> "panic"]

\* the URI of a call that had none
NoUri == Uri("", "", <<>>)

\* DefinitionCache::get_or_insert::<T>(input), from the conversion on
GetOrInsertFrom(input, T, content) ==
    LET converted == ConvertUri(input)
    IN  IF converted.kind = "ok"
        THEN GetOrInsert(converted.v, T, content)
        ELSE /\ ~panicked
             /\ ncalls < MaxCalls
             /\ ncalls' = ncalls + 1
             /\ panicked' = (converted.kind = "panic")
             /\ last' = Observation("get_or_insert", NoUri, T, content, FALSE, converted.kind,
                                    IF converted.kind = "err" THEN converted.err ELSE NoError,
                                    0, 0, 0, "none", FALSE, 0)
             /\ UNCHANGED <<yaml, validate, cache, nextRc, loads, arg>>

\* the arguments given to get_or_insert
UrlInputs ==
    { FromUrl(Uri("file", "", <<"w","f",".","j","s","o","n">>)),
      FromUrl(Uri("s3", "b", <<"w","f",".","j","s","o","n">>)) }

WellFormedTexts ==
    { <<"file", ":", "//", "", "/", <<"w","f",".","j","s","o","n">> >>,
      <<"FILE", ":", "//", "localhost", "/", <<"w","f",".","j","s","o","n">> >>,
      <<"file", ":", "//", "", "/", <<"w","f",".","x","y","z">> >>,
      <<"s3", ":", "//", "b", "/", <<"w","f",".","j","s","o","n">> >> }

OtherTexts ==
    { <<>>,
      <<"wf.json">>,
      <<"", ":", "//", "h", "/", <<"w","f",".","j","s","o","n">> >>,
      <<"https", ":", "//">> }

Inputs == UrlInputs \cup {FromStr(text) : text \in WellFormedTexts \cup OtherTexts}

\* a new cache in a build with any combination of the features; the type
\* asked for and what the resources hold are drawn at the start
InitConvert ==
    /\ yaml \in BOOLEAN
    /\ validate \in BOOLEAN
    /\ cache = [u \in {} |-> 0]
    /\ nextRc = 0
    /\ loads = [u \in {} |-> 0]
    /\ ncalls = 0
    /\ panicked = FALSE
    /\ last = NoCall
    /\ arg \in [input : Inputs, type : Types, content : Contents]

\* the caller takes another input for the next call
ChooseInput(input) ==
    /\ ~panicked
    /\ ncalls > 0
    /\ ncalls < MaxCalls
    /\ input # arg.input
    /\ arg' = [arg EXCEPT !.input = input]
    /\ UNCHANGED <<yaml, validate, cache, nextRc, loads, ncalls, panicked, last>>

\* get_or_insert called with the input drawn, then with any input
NextConvert ==
    \/ GetOrInsertFrom(arg.input, arg.type, arg.content)
    \/ \E input \in Inputs : ChooseInput(input)

SpecConvert == InitConvert /\ [][NextConvert]_vars

(***************************************************************************)
(* Properties of the conversion, under SpecConvert                         *)
(***************************************************************************)
\* the strings that are not URLs: the empty string, a file name alone, a
\* string that starts with the colon, an https URL without a host
MalformedTexts ==
    { <<>>,
      <<"wf.json">>,
      <<"", ":", "//", "h", "/", <<"w","f",".","j","s","o","n">> >>,
      <<"https", ":", "//">> }

\* C23: a call of get_or_insert with a string that is not a URL returns
\* InvalidUrl, does not invoke the loader and leaves the cache map as it was.
C23_MalformedUriIsRejected ==
    [][ ( /\ CallStep("get_or_insert")
          /\ arg.input.form = "Str"
          /\ arg.input.text \in MalformedTexts )
        => ( /\ last'.kind = "err"
             /\ last'.err.tag = "InvalidUrl"
             /\ last'.loaderRuns = 0
             /\ last'.reads = 0
             /\ last'.decoder = "none"
             /\ loads' = loads
             /\ cache' = cache
             /\ ~panicked' ) ]_vars

\* a malformed string was rejected by a cache that holds an entry
C23_Witness ==
    /\ last.op = "get_or_insert"
    /\ last.kind = "err"
    /\ last.err = [tag |-> "InvalidUrl", source |-> "EmptyHost"]
    /\ DOMAIN cache # {}

\* the error of the parser for each string that is not a URL
ExpectedParseError(text) ==
    CASE text = <<>> -> "RelativeUrlWithoutBase"
      [] text = <<"wf.json">> -> "RelativeUrlWithoutBase"
      [] text = <<"https", ":", "//">> -> "EmptyHost"
      [] OTHER -> "RelativeUrlWithoutBase"

\* C25: the error of a failed conversion is mapped to Some(InvalidUrl of that
\* error) and returned, so that the conversion step of get_or_insert never
\* panics (a call panics only inside the loader); a Url given as it is
\* never fails to convert: the call goes on with that Url and does not
\* return InvalidUrl.
C25_ConversionErrorsAreValues ==
    [][ CallStep("get_or_insert")
        => ( /\ last'.kind = "panic" => last'.loaderRuns = 1
             /\ (arg.input.form = "Str" /\ arg.input.text \in MalformedTexts)
                => ( /\ last'.kind = "err"
                     /\ last'.err = [tag |-> "InvalidUrl",
                                     source |-> ExpectedParseError(arg.input.text)] )
             /\ arg.input.form = "Url"
                => ( /\ last'.err.tag # "InvalidUrl"
                     /\ last'.uri = arg.input.uri ) ) ]_vars

\* a string without a scheme failed to convert and the call returned the
\* error of the parser inside InvalidUrl
C25_Witness ==
    /\ last.op = "get_or_insert"
    /\ arg.input = [form |-> "Str", text |-> <<"wf.json">>]
    /\ last.kind = "err"
    /\ last.err = [tag |-> "InvalidUrl", source |-> "RelativeUrlWithoutBase"]
    /\ ~panicked

(***************************************************************************)
(* Properties of the steps of DefinitionLoader::load, under SpecLoader     *)
(***************************************************************************)
\* the number of decode passes of the last call
DecodePasses(obs) == IF obs.decoder = "none" THEN 0 ELSE 1

\* the decoder that the extension selects in this build
DecoderFor(uri) ==
    CASE ExpectedExt(uri.seg) = ExtJson -> "json"
      [] ExpectedExt(uri.seg) \in {ExtYaml, ExtYml} /\ yaml -> "yaml"
      [] OTHER -> "none"

\* C24 as stated: every call of load performs exactly one read and exactly
\* one decode pass.
C24_Original_OneReadOneDecodePerLoad ==
    last.op = "load" => (last.reads = 1 /\ DecodePasses(last) = 1)

\* C24 amended: a call of load reads the file once if the URI names a local
\* file and not at all otherwise, and decodes once if the file was read and
\* its extension selects a decoder and not at all otherwise, so a successful
\* load has read once and decoded once; the loader keeps nothing between
\* calls: a load of the same URI reads and decodes again, allocates a new
\* document, has the outcome of the earlier load, and leaves the cache alone.
C24_AtMostOneReadAndDecodePerLoad ==
    [][ CallStep("load")
        => ( /\ last'.reads = IF last'.uri.scheme = "file" /\ last'.uri.host \in {"", "localhost"}
                              THEN 1 ELSE 0
             /\ DecodePasses(last') = IF Readable(last'.uri, last'.content)
                                         /\ DecoderFor(last'.uri) # "none"
                                      THEN 1 ELSE 0
             /\ last'.kind = "ok" => (last'.reads = 1 /\ DecodePasses(last') = 1)
             /\ cache' = cache
             /\ ( /\ last.op = "load"
                  /\ last.uri = last'.uri
                  /\ last.type = last'.type
                  /\ last.content = last'.content )
                => ( /\ last'.kind = last.kind
                     /\ last'.err = last.err
                     /\ last'.doc = last.doc
                     /\ last'.reads = last.reads
                     /\ last'.decoder = last.decoder
                     /\ last'.validated = last.validated
                     /\ last'.kind = "ok" => last'.rc # last.rc ) ) ]_vars

\* a second load of the same file has read and decoded it again
C24_Witness ==
    /\ last.op = "load"
    /\ last.kind = "ok"
    /\ last.reads = 1
    /\ last.decoder = "json"
    /\ ncalls = 2
    /\ nextRc = 2
    /\ cache = [u \in {} |-> 0]

\* C26: load reports the first failure in the order scheme and fetch,
\* format, decode, validation: an unsupported scheme whatever the extension;
\* for a file:// URI an invalid path, then a read failure, both before the
\* extension is looked at; then an unsupported extension or the disabled
\* yaml feature, the file having been read; then a decode error, before any
\* rule is checked.
C26_FirstFailureInOrder ==
    last.op = "load"
    => ( /\ last.uri.scheme \notin {"file", "http", "https"}
            => ( /\ last.kind = "err"
                 /\ last.err = [tag |-> "UnsupportedUriScheme", scheme |-> last.uri.scheme]
                 /\ last.reads = 0 )
         /\ (last.uri.scheme = "file" /\ last.uri.host \notin {"", "localhost"})
            => ( /\ last.kind = "err"
                 /\ last.err = [tag |-> "InvalidPathInFileUri", file_uri |-> last.uri]
                 /\ last.reads = 0 )
         /\ ( /\ last.uri.scheme = "file"
              /\ last.uri.host \in {"", "localhost"}
              /\ ~last.content.exists )
            => ( /\ last.kind = "err"
                 /\ last.err = [tag |-> "FileIo"]
                 /\ last.reads = 1 )
         /\ ( /\ Readable(last.uri, last.content)
              /\ ExpectedExt(last.uri.seg) \notin {ExtJson, ExtYaml, ExtYml} )
            => ( /\ last.kind = "err"
                 /\ last.err = [tag |-> "UnsupportedFileFormat",
                                file_ext |-> ExpectedExt(last.uri.seg)]
                 /\ last.reads = 1 )
         /\ ( /\ Readable(last.uri, last.content)
              /\ ExpectedExt(last.uri.seg) \in {ExtYaml, ExtYml}
              /\ ~yaml )
            => ( /\ last.kind = "err"
                 /\ last.err = [tag |-> "FeatureDisabled", required_feature |-> "yaml"]
                 /\ last.reads = 1 )
         /\ ( /\ Readable(last.uri, last.content)
              /\ DecoderFor(last.uri) # "none"
              /\ ~Decodable(last.uri, last.type, last.content) )
            => ( /\ last.kind = "err"
                 /\ last.err.tag \in {"JsonConversionFailed", "YamlConversionFailed"}
                 /\ ~last.validated ) )

\* a file that does not exist and whose extension is not supported: the
\* read failure is the error
C26_Witness ==
    /\ last.op = "load"
    /\ last.uri.scheme = "file"
    /\ ~last.content.exists
    /\ ExpectedExt(last.uri.seg) = <<"x","y","z">>
    /\ last.err = [tag |-> "FileIo"]
    /\ last.reads = 1

(***************************************************************************)
(* The frame of a cache hit, under Spec                                    *)
(***************************************************************************)
\* C27: a call that finds an entry leaves the cache map as it was, also when
\* it returns the type mismatch; the handle that a successful call returns
\* is that of the entry; and after a type mismatch on a URI, a call for the
\* type of the entry succeeds without invoking the loader and returns the
\* handle of the entry, which is that of the call that made it.
C27_HitLeavesTheCacheAlone ==
    [][ /\ (CallStep("get_or_insert") /\ last'.hit)
           => (cache' = cache /\ loads' = loads /\ last'.loaderRuns = 0)
        /\ (CallStep("get_or_insert") /\ last'.kind = "ok")
           => ( /\ last'.uri \in DOMAIN cache'
                /\ cache'[last'.uri].def.rc = last'.rc )
        /\ ( /\ last.op = "get_or_insert"
             /\ last.hit
             /\ last.kind = "err"
             /\ last.err.tag = "InvalidCachedObjectType"
             /\ CallStep("get_or_insert")
             /\ last'.uri = last.uri
             /\ last'.type = last.err.actual_type )
           => ( /\ last'.kind = "ok"
                /\ last'.hit
                /\ last'.loaderRuns = 0
                /\ last'.reads = 0
                /\ last'.rc = cache[last.uri].def.rc
                /\ last'.doc = cache[last.uri].def.doc ) ]_vars

\* the second call on a URI has returned the type mismatch and the entry of
\* the first call is still there, the only load being that of the first call
C27_Witness ==
    /\ last.op = "get_or_insert"
    /\ last.hit
    /\ last.err.tag = "InvalidCachedObjectType"
    /\ ncalls = 2
    /\ last.uri \in DOMAIN cache
    /\ cache[last.uri].def.rc = 1
    /\ cache[last.uri].actual_type = last.err.actual_type
    /\ LoadCount(loads, last.uri) = 1

(***************************************************************************)
(* Properties of validated values, under SpecRules                         *)
(***************************************************************************)
\* C28: value() of a NonNegativeNumber whose validation reports nothing, in
\* the form Number or String, is Ok of a number greater than or equal to
\* zero.
C28_ValidatedNumberIsNotNegative ==
    (last.op = "NonNegativeNumber::value" /\ last.res.report = <<>>)
    => (last.res.v.kind = "ok" /\ last.res.v.v >= 0)

\* C29: id() of an Identifier whose validation reports nothing is Ok of a
\* string that is not empty, never MissingIdentifier; so is id() of the
\* identifier of a definition that validate_definition accepts.
C29_ValidatedIdentifierHasAnId ==
    /\ (last.op = "Identifier::validate" /\ last.res.report = <<>>)
       => (last.res.v.kind = "ok" /\ Len(last.res.v.v) > 0)
    /\ (last.op = "validate_definition" /\ Accepted)
       => ( /\ IdentifierId(last.in.doc.identifier).kind = "ok"
            /\ Len(IdentifierId(last.in.doc.identifier).v) > 0 )

\* an identifier with a key only has passed the validation and id() is
\* the key
C29_Witness ==
    /\ last.op = "Identifier::validate"
    /\ last.res.report = <<>>
    /\ ~last.in.identifier.id.some
    /\ last.res.v = [kind |-> "ok", v |-> <<"k">>]

\* C30: must_be_multiple_of(m), with m not zero, given the String form of a
\* string that must_be_a_number accepts (the empty string, which stands for
\* zero, or a numeric string), does not reject it for a failed conversion:
\* it accepts if and only if the number is a multiple of m.
C30_MultipleOfAcceptsWhatIsANumber ==
    ( /\ last.op = "must_be_multiple_of"
      /\ last.in.multiple # 0
      /\ last.in.value.form = "String"
      /\ last.in.value.s \in NumericStrings \cup {<<>>} )
    => LET n == IF last.in.value.s = <<>> THEN 0 ELSE NumericValue(last.in.value.s)
       IN  /\ Rejected => last.res.err.fmt # "expected valid number, got '{}': {}"
           /\ Accepted <=> IsMultipleOf(n, last.in.multiple)

====
